---- MODULE Spec2Model ----
(***************************************************************************)
(* Model of wrapanapi/systems/scvmm.py: the SCVM handle and the            *)
(* SCVMMSystem operations, run by a single blocking caller against an      *)
(* SCVMM manager.  Every handler is one action: it issues its remote       *)
(* commands in the order of the code, stops at the first command that      *)
(* exits non-zero (run_script raises), and leaves in `log` the commands    *)
(* the transport saw during that call and in `last` the call's outcome.    *)
(*                                                                         *)
(* The logger calls of the source change no state and are left out (the    *)
(* two malformed logger calls at lines 96 and 104 are read as the plain    *)
(* log lines they are meant to be).                                        *)
(***************************************************************************)
EXTENDS Naturals, Integers, Sequences, FiniteSets, TLC

\* Number of polls a wait loop makes before its timeout elapses.
MaxPolls == 2

\* VM and template names known to the manager.
Names == {"a", "b"}

\* Python's None; also the status of a name the manager has no VM for.
None == "None"
Absent == "Absent"

\* Status strings the manager reports (StatusString); "Starting" and
\* "Bogus" stand for the strings the status table does not list.
Statuses ==
    {"Running", "PowerOff", "Stopped", "Paused", "Missing",
     "Creation Failed", "Starting", "Bogus"}

\* The closed set of canonical VM states.
VmState == {"RUNNING", "STOPPED", "PAUSED", "ERROR", "UNKNOWN"}

\* The systems a handle can belong to.
Systems == {"scvmm1", "scvmm2"}

\* What the transport reports of a script that exits non-zero, and of one
\* that exits zero.
Failures == {[status_code |-> 1, std_err |-> "denied"],
             [status_code |-> 2, std_err |-> "busy"],
             [status_code |-> 255, std_err |-> ""]}
Success == [status_code |-> 0, std_err |-> ""]
Denied == [status_code |-> 1, std_err |-> "denied"]

\* Outcomes of a call.
Ok == "ok"
PowerShellScriptError == "PowerShellScriptError: Script returned"
TemplateNotFoundError == "PowerShellScriptError: Template does not exist"
TimeoutError == "TimedOutError"
XMLSyntaxError == "XMLSyntaxError"

VARIABLES
    vms,            \* manager: name -> status string, or Absent
    templates,      \* manager: the templates that exist
    library,        \* manager: the templates the library view lists
    refreshPending, \* manager: an asynchronous library refresh job is queued
    hname,          \* the SCVM handle's _name
    hsystem,        \* the SCVM handle's system
    log,            \* commands the transport saw during the last call
    last,           \* the last call: operation, arguments, outcome
    node,           \* the XML node handed to the deserializer
    value,          \* what the deserializer made of it
    dvd,            \* disconnect_dvd_drives: the VM's drives and the loop
    ip              \* get_ip_address: what the manager reported, the result

vars == <<vms, templates, library, refreshPending, hname, hsystem, log, last,
          node, value, dvd, ip>>

\* What the handle's and the system's operations leave alone.
aux == <<hsystem, node, value, dvd, ip>>

\* The manager's state as one record, threaded through a call.
Manager == [vms |-> vms, templates |-> templates, library |-> library,
            refreshPending |-> refreshPending]

----------------------------------------------------------------------------
(* SCVMMSystem class constants, lines 134-139 *)

STATE_RUNNING == "Running"
STATES_STOPPED == {"PowerOff", "Stopped"}
STATE_PAUSED == "Paused"
STATES_STEADY == {STATE_RUNNING, STATE_PAUSED} \cup STATES_STOPPED
STATES_FAILED == {"Creation Failed"}

(* SCVM.state_map, lines 43-51 *)
state_map_suspended ==
    [s \in {"Running", "PowerOff", "Paused", "Missing", "Creation Failed"} |->
        CASE s = "Running" -> "RUNNING"
          [] s = "PowerOff" -> "STOPPED"
          [] s = "Paused" -> "SUSPENDED"
          [] s = "Missing" -> "ERROR"
          [] s = "Creation Failed" -> "ERROR"]

state_map ==
    [s \in {"Running", "PowerOff", "Paused", "Missing", "Creation Failed"} |->
        CASE s = "Running" -> "RUNNING"
          [] s = "PowerOff" -> "STOPPED"
          [] s = "Paused" -> "PAUSED"
          [] s = "Missing" -> "ERROR"
          [] s = "Creation Failed" -> "ERROR"]

\* The lookup of a reported status in the table, unmapped strings giving
\* UNKNOWN (the base class's use of state_map).
mapStatus(raw) ==
    IF raw \in DOMAIN state_map THEN state_map[raw] ELSE "UNKNOWN"

\* Membership of a reported status in the steady and failed sets.
isSteady(raw) == raw \in STATES_STEADY
isFailed(raw) == raw \in STATES_FAILED

\* SCVM.state, lines 53-55: the property's body is `pass`; it reads
\* nothing from the manager and returns None.
state(h) == None

\* The base class's is_suspended: the handle's state is PAUSED.
is_suspended(h) == state(h) = "PAUSED"

----------------------------------------------------------------------------
(* Remote commands and the manager's reaction to them *)

\* A command handed to run_script: the cmdlet or VM action, the name it
\* addresses and its further argument.
Cmd(c, n, a) == [cmd |-> c, name |-> n, arg |-> a]

\* A handler's course when no command fails: the commands it issues, how it
\* ends and what it returns.  nameAt > 0: the handle takes the name newName
\* once the first nameAt commands have succeeded.
Course(plan, outcome, ret) ==
    [plan |-> plan, outcome |-> outcome, ret |-> ret, retSystem |-> None,
     nameAt |-> 0, newName |-> None]

\* Sequential composition: b runs only if a ended normally.
Then(a, b) ==
    IF a.outcome # Ok THEN a
    ELSE [plan |-> a.plan \o b.plan, outcome |-> b.outcome, ret |-> b.ret,
          retSystem |-> b.retSystem,
          nameAt |-> IF b.nameAt > 0 THEN Len(a.plan) + b.nameAt ELSE a.nameAt,
          newName |-> IF b.nameAt > 0 THEN b.newName ELSE a.newName]

\* The clone script as the manager reads it: New-SCVirtualMachine -VM with
\* the -StartVM switch, without it, and without it but followed by a line
\* that holds nothing but the switch.
CloneStarted == "New-SCVirtualMachine -VM -StartVM"
ClonePlain == "New-SCVirtualMachine -VM"
CloneStray == "New-SCVirtualMachine -VM \n -StartVM"
CloneCmds == {CloneStarted, ClonePlain, CloneStray}

\* Commands the manager rejects (non-zero exit) in state m: a template made
\* of a VM it does not have, removal of a template it does not have, a VM
\* created from a template it does not have or under a name already taken.
Rejects(m, c) ==
    CASE c.cmd = "New-SCVMTemplate" -> m.vms[c.name] = Absent
      [] c.cmd = "Remove-SCVMTemplate" -> c.name \notin m.templates
      [] c.cmd = "New-SCVirtualMachine" ->
            c.arg \notin m.templates \/ m.vms[c.name] # Absent
      [] c.cmd \in CloneCmds -> m.vms[c.arg] = Absent \/ m.vms[c.name] # Absent
      [] OTHER -> FALSE

SetVm(m, n, s) == [m EXCEPT !.vms[n] = s]

\* The manager's state after command c has succeeded.
Effect(m, c) ==
    LET st == IF c.name \in Names THEN m.vms[c.name] ELSE Absent IN
    CASE c.cmd = "Start" /\ st \in STATES_STOPPED -> SetVm(m, c.name, "Starting")
      [] c.cmd = "Resume" /\ st = "Paused" -> SetVm(m, c.name, "Running")
      [] c.cmd = "Suspend" /\ st = "Running" -> SetVm(m, c.name, "Paused")
      [] c.cmd = "Stop" /\ st \notin STATES_STOPPED \cup {Absent} ->
            SetVm(m, c.name, IF c.arg = "-Force" THEN "PowerOff" ELSE "Stopped")
      [] c.cmd = "Remove" -> SetVm(m, c.name, Absent)
      [] c.cmd = "Set" /\ st # Absent /\ c.arg # c.name ->
            [m EXCEPT !.vms[c.arg] = st, !.vms[c.name] = Absent]
      [] c.cmd = "New-SCVirtualMachine" -> SetVm(m, c.name, "PowerOff")
      [] c.cmd = CloneStarted -> SetVm(m, c.name, "Starting")
      [] c.cmd \in {ClonePlain, CloneStray} -> SetVm(m, c.name, "PowerOff")
      [] c.cmd = "New-SCVMTemplate" ->
            [m EXCEPT !.vms[c.name] = Absent,
                      !.templates = m.templates \cup {c.name}]
      [] c.cmd = "Remove-SCVMTemplate" ->
            [m EXCEPT !.templates = m.templates \ {c.name}]
      [] c.cmd = "Read-SCLibraryShare" -> [m EXCEPT !.refreshPending = TRUE]
      [] c.cmd = "Get-SCVirtualMachine" /\ c.arg # "" /\ st # Absent ->
            SetVm(m, c.name, c.arg)
      [] OTHER -> m

\* run_script over a course, lines 169-177: the commands are issued in
\* order, each recorded with the status its VM had when it was issued; the
\* command at position failAt, or the first one the manager rejects, exits
\* non-zero and ends the call.
\* bad is what the transport reports of the failing command; the error
\* raised carries its status_code and std_err.
RECURSIVE RunFrom(_, _, _, _, _, _)
RunFrom(plan, i, m, lg, failAt, bad) ==
    IF i > Len(plan)
    THEN [m |-> m, log |-> lg, failed |-> FALSE, done |-> i - 1,
          result |-> Success, raised |-> Success]
    ELSE LET c == plan[i]
             e == [cmd |-> c.cmd, name |-> c.name, arg |-> c.arg,
                   st |-> IF c.name \in Names THEN m.vms[c.name] ELSE None]
             result == IF i = failAt \/ Rejects(m, c) THEN bad ELSE Success
         IN IF result.status_code # 0
            THEN [m |-> m, log |-> Append(lg, e), failed |-> TRUE, done |-> i - 1,
                  result |-> result,
                  raised |-> [status_code |-> result.status_code,
                              std_err |-> result.std_err]]
            ELSE RunFrom(plan, i + 1, Effect(m, c), Append(lg, e), failAt, bad)

\* run_script that issues the failing command a second time before raising.
run_script_retry(plan, m, failAt, bad) ==
    LET r == RunFrom(plan, 1, m, <<>>, failAt, bad)
    IN IF r.failed THEN [r EXCEPT !.log = Append(@, @[Len(@)])] ELSE r

run_script(plan, m, failAt, bad) == RunFrom(plan, 1, m, <<>>, failAt, bad)

----------------------------------------------------------------------------
(* SCVM: the VM handle, lines 22-125.  h is the handle's name. *)

\* SCVM._do_vm, lines 65-70
do_vm(h, action, params) == Course(<<Cmd(action, h, params)>>, Ok, "True")

\* SCVM.start, lines 72-76
start(h) ==
    IF is_suspended(h) THEN do_vm(h, "Resume", "") ELSE do_vm(h, "Start", "")

\* SCVM.stop, lines 78-79
stop(h, graceful) == do_vm(h, "Stop", IF graceful THEN "-Shutdown" ELSE "-Force")

\* SCVM.restart, lines 81-82
restart(h) == do_vm(h, "Reset", "")

\* SCVM.suspend, lines 84-85
suspend(h) == do_vm(h, "Suspend", "")

\* The base class's ensure_state: nothing to do when the handle's state is
\* the target; otherwise drive the stop transition and block until the
\* handle's state is the target, failing when the wait times out.
ensure_state(h, target) ==
    IF state(h) = target THEN Course(<<>>, Ok, "True")
    ELSE Then(stop(h, FALSE),
              IF state(h) = target THEN Course(<<>>, Ok, "True")
              ELSE Course(<<>>, TimeoutError, None))

\* The base class's refresh: re-fetch the VM's details under the handle's name.
refresh(h) == Course(<<Cmd("Get-SCVirtualMachine", h, "")>>, Ok, None)

\* SCVM.delete, lines 87-90
delete(h) == Then(ensure_state(h, "STOPPED"), do_vm(h, "Remove", ""))

\* SCVM.rename, lines 95-101
rename(h, name) ==
    Then(ensure_state(h, "STOPPED"),
         Then([do_vm(h, "Set", name) EXCEPT !.nameAt = 1, !.newName = name],
              refresh(name)))

\* The script text of clone, lines 106-110, as lines of words: the literal
\* ends with a line break and the indentation of its closing quotes, so its
\* last line is empty.
cloneScript ==
    <<<<"$vm_new", "=", "Get-SCVirtualMachine">>,
      <<"$vm_host", "=", "Get-SCVMHost">>,
      <<"New-SCVirtualMachine", "-Name", "-VM", "-VMHost", "-Path">>,
      <<>>>>

\* "{} -StartVM".format(script), line 112: the word goes on the end of the text.
withStartVM(script) == [script EXCEPT ![Len(script)] = Append(@, "-StartVM")]

\* How the manager reads a clone script.
readClone(script) ==
    LET cmdlet == CHOOSE i \in 1..Len(script) :
                      Len(script[i]) > 0 /\ script[i][1] = "New-SCVirtualMachine"
        has(i) == \E j \in 1..Len(script[i]) : script[i][j] = "-StartVM"
    IN IF has(cmdlet) THEN CloneStarted
       ELSE IF \E i \in 1..Len(script) : has(i) THEN CloneStray
       ELSE ClonePlain

\* SCVM.clone, lines 103-114.  s is the handle's system, start_after the
\* start_vm argument.
clone(h, s, vm_name, start_after) ==
    LET script == IF start_after THEN withStartVM(cloneScript) ELSE cloneScript
    IN [Course(<<Cmd(readClone(script), vm_name, h)>>, Ok, vm_name)
            EXCEPT !.retSystem = s]

----------------------------------------------------------------------------
(* SCVMMSystem, lines 128-430.  m is the manager's state when the call starts. *)

Bool(b) == IF b THEN "True" ELSE "False"

\* SCVMMSystem.does_template_exist, lines 307-310
does_template_exist(m, template) ==
    Course(<<Cmd("Get-SCVMTemplate", template, "")>>, Ok,
           Bool(template \in m.library))

\* SCVMMSystem.vm_status, lines 290-295: the reply for a VM the manager does
\* not have is empty and does not parse.
vm_status(m, vm_name) ==
    Course(<<Cmd("Get-SCVirtualMachine", vm_name, "")>>,
           IF m.vms[vm_name] = Absent THEN XMLSyntaxError ELSE Ok,
           m.vms[vm_name])

\* The reported status read and mapped through the status table.
vm_state(m, vm_name) ==
    LET s == vm_status(m, vm_name)
    IN Then(s, Course(<<>>, Ok, mapStatus(s.ret)))

\* SCVMMSystem.update_scvmm_virtualmachine, lines 343-351
update_scvmm_virtualmachine(vm_name) ==
    Course(<<Cmd("Read-SCVirtualMachine", vm_name, "")>>, Ok, None)

\* SCVMMSystem.update_scvmm_library, lines 362-369
update_scvmm_library ==
    Course(<<Cmd("Read-SCLibraryShare", "VMMLibrary", "-RunAsynchronously")>>,
           Ok, None)

\* The system's enable_virtual_services(vm_name): one command enabling the
\* guest integration service of the VM.
enable_virtual_services(vm_name) ==
    Course(<<Cmd("Enable-VMIntegrationService", vm_name, "")>>, Ok, None)

\* The system's start_vm(vm_name): start of the VM of that name.
start_vm(vm_name) == start(vm_name)

\* The system's wait_vm_running(vm_name, num_sec): poll the VM's status until
\* it is Running or the timeout elapses.  k is what the manager does during
\* the wait: the poll (1..MaxPolls) at which it first reports Running, or 0
\* when it still reports Starting at the last poll the timeout allows.
Poll(vm_name, i, k) ==
    Cmd("Get-SCVirtualMachine", vm_name, IF i = k THEN STATE_RUNNING ELSE "Starting")

wait_vm_running(vm_name, k) ==
    Course([i \in 1..(IF k = 0 THEN MaxPolls ELSE k) |-> Poll(vm_name, i, k)],
           IF k = 0 THEN TimeoutError ELSE Ok, None)

\* SCVMMSystem.deploy_template, lines 312-341
CreateVm(template, vm_name) ==
    Course(<<Cmd("New-SCVirtualMachine", vm_name, template)>>, Ok, None)

DeploySteps(template, vm_name, k, rest) ==
    Then(CreateVm(template, vm_name),
    Then(enable_virtual_services(vm_name),
    Then(start_vm(vm_name),
    Then(wait_vm_running(vm_name, k), rest))))

\* deploy_template without the existence guard.
deploy_template_unguarded(m, template, vm_name, k) ==
    Then(does_template_exist(m, template),
         DeploySteps(template, vm_name, k,
            Then(update_scvmm_virtualmachine(vm_name), Course(<<>>, Ok, vm_name))))

\* deploy_template rolling the VM back when the wait has timed out.
deploy_template_rollback(m, template, vm_name, k) ==
    LET ex == does_template_exist(m, template)
        run == Then(ex, DeploySteps(template, vm_name, k,
                    Then(update_scvmm_virtualmachine(vm_name),
                         Course(<<>>, Ok, vm_name))))
    IN IF ex.ret # "True"
       THEN Then(ex, Course(<<>>, TemplateNotFoundError, None))
       ELSE IF run.outcome = TimeoutError
            THEN [run EXCEPT !.plan = run.plan \o do_vm(vm_name, "Remove", "").plan]
            ELSE run

\* deploy_template starting the VM before enabling the guest service.
deploy_template_start_first(m, template, vm_name, k) ==
    LET ex == does_template_exist(m, template)
    IN IF ex.ret # "True"
       THEN Then(ex, Course(<<>>, TemplateNotFoundError, None))
       ELSE Then(ex,
            Then(CreateVm(template, vm_name),
            Then(start_vm(vm_name),
            Then(enable_virtual_services(vm_name),
            Then(wait_vm_running(vm_name, k),
            Then(update_scvmm_virtualmachine(vm_name),
                 Course(<<>>, Ok, vm_name)))))))

deploy_template(m, template, vm_name, k) ==
    LET ex == does_template_exist(m, template)
    IN IF ex.ret # "True"
       THEN Then(ex, Course(<<>>, TemplateNotFoundError, None))
       ELSE Then(ex,
            Then(CreateVm(template, vm_name),
            Then(enable_virtual_services(vm_name),
            Then(start_vm(vm_name),
            Then(wait_vm_running(vm_name, k),
            Then(update_scvmm_virtualmachine(vm_name),
                 Course(<<>>, Ok, vm_name)))))))

\* The system's delete_vm: the delete of the handle of that name.
delete_vm(vm_name) == delete(vm_name)

\* What a with-block's body ends with when it raises.
BodyError == "an exception raised by the body"

\* SCVMMSystem.with_vm, lines 382-387, around a body that issues no command:
\* the generator is resumed after the yield only when the body ends
\* normally; an exception of the body is thrown in at the yield and leaves
\* the generator there.
with_vm(m, template, vm_name, k, body_raises) ==
    Then(deploy_template(m, template, vm_name, k),
         IF body_raises THEN Course(<<>>, BodyError, None)
         ELSE delete_vm(vm_name))

\* SCVMMSystem.delete_template, lines 182-192
\* delete_template without the library refresh.
delete_template_norefresh(m, template) ==
    LET ex == does_template_exist(m, template)
    IN IF ex.ret = "True"
       THEN Then(ex,
            Course(<<Cmd("Remove-SCVMTemplate", template, "-Force")>>, Ok, None))
       ELSE Then(ex, Course(<<>>, Ok, None))

delete_template(m, template) ==
    LET ex == does_template_exist(m, template)
    IN IF ex.ret = "True"
       THEN Then(ex,
            Then(Course(<<Cmd("Remove-SCVMTemplate", template, "-Force")>>, Ok, None),
                 update_scvmm_library))
       ELSE Then(ex, Course(<<>>, Ok, None))

\* SCVMMSystem.mark_as_template, lines 371-380
\* mark_as_template without the library refresh.
mark_as_template_norefresh(vm_name) ==
    Course(<<Cmd("New-SCVMTemplate", vm_name, "")>>, Ok, None)

mark_as_template(vm_name) ==
    Then(Course(<<Cmd("New-SCVMTemplate", vm_name, "")>>, Ok, None),
         update_scvmm_library)

----------------------------------------------------------------------------
(* Access to detailed SCVMM data, lines 432-471.  A text is a sequence of
   characters; a node of the parsed XML carries the Name attribute ("" when
   it has none), the Type attribute, its text and its child elements. *)

\* Padding around the words of the texts, and the children of a node.
MaxPad == 1
MaxKids == 2

Chars(n) == [nil |-> FALSE, chars |-> n]
NoText == [nil |-> TRUE, chars |-> <<>>]

Whitespace == {" ", "\t", "\n"}
Digits == <<"0", "1", "2", "3", "4", "5", "6", "7", "8", "9">>
IsDigit(c) == \E d \in 1..Len(Digits) : Digits[d] = c
DigitValue(c) == (CHOOSE d \in 1..Len(Digits) : Digits[d] = c) - 1

\* str.lower, one character
lowerChar(c) ==
    CASE c = "T" -> "t" [] c = "R" -> "r" [] c = "U" -> "u" [] c = "E" -> "e"
      [] c = "N" -> "n" [] c = "O" -> "o" [] c = "X" -> "x"
      [] OTHER -> c

\* str.lower
lower(s) == [i \in 1..Len(s) |-> lowerChar(s[i])]

\* str.strip: whitespace goes from both ends, never from the middle.
RECURSIVE lstrip(_)
lstrip(s) == IF s # <<>> /\ Head(s) \in Whitespace THEN lstrip(Tail(s)) ELSE s

RECURSIVE rstrip(_)
rstrip(s) ==
    IF s # <<>> /\ s[Len(s)] \in Whitespace
    THEN rstrip(SubSeq(s, 1, Len(s) - 1)) ELSE s

strip(s) == rstrip(lstrip(s))

\* The values attributes and list elements take: None, a bool, an int, a
\* nested SCVMMDataHolderDict (fields) or SCVMMDataHolderList (items); or the
\* exception that ended the construction (err).
Val(kind) == [kind |-> kind, b |-> FALSE, i |-> 0, s |-> <<>>, items |-> <<>>,
              fields |-> <<>>, err |-> ""]
Null == Val("null")
BoolVal(b) == [Val("bool") EXCEPT !.b = b]
IntVal(i) == [Val("int") EXCEPT !.i = i]
StrVal(s) == [Val("str") EXCEPT !.s = s]
ListVal(items) == [Val("list") EXCEPT !.items = items]
DictVal(fields) == [Val("dict") EXCEPT !.fields = fields]
Raise(err) == [Val("error") EXCEPT !.err = err]
ValueError == "ValueError"
KeyError == "KeyError"

\* int(data): surrounding whitespace and one sign are allowed, then digits
\* only and at least one; anything else raises ValueError.
RECURSIVE DigitsValue(_, _)
DigitsValue(s, acc) ==
    IF s = <<>> THEN acc
    ELSE DigitsValue(Tail(s), acc * Len(Digits) + DigitValue(Head(s)))

int(data) ==
    LET t == strip(data)
        signed == t # <<>> /\ Head(t) \in {"-", "+"}
        d == IF signed THEN Tail(t) ELSE t
    IN IF d = <<>> \/ \E j \in 1..Len(d) : ~IsDigit(d[j]) THEN Raise(ValueError)
       ELSE IntVal(IF signed /\ Head(t) = "-" THEN 0 - DigitsValue(d, 0)
                   ELSE DigitsValue(d, 0))

TrueText == <<"t", "r", "u", "e">>
NoneText == <<"n", "o", "n", "e">>

\* t.startswith("System.Int"), over the type tags of the model
StartsWithSystemInt(t) == t \in {"System.Int32", "System.Int64", "System.IntPtr"}

\* parse_data that compares without stripping the right end.
parse_data_lstrip(t, data) ==
    IF data.nil THEN Null
    ELSE IF t = "System.Boolean" THEN BoolVal(lstrip(lower(data.chars)) = TrueText)
    ELSE IF StartsWithSystemInt(t) THEN int(data.chars)
    ELSE Null

\* SCVMMSystem.parse_data, lines 435-443: no branch returns the text itself,
\* so every case the branches do not take falls off the end and gives None.
parse_data(t, data) ==
    IF data.nil THEN Null
    ELSE IF t = "System.Boolean" THEN BoolVal(strip(lower(data.chars)) = TrueText)
    ELSE IF StartsWithSystemInt(t) THEN int(data.chars)
    ELSE IF t = "System.String" /\ strip(lower(data.chars)) = NoneText THEN Null
    ELSE Null

Node(name, type, text, children) ==
    [name |-> name, type |-> type, text |-> text, children |-> children]

\* self.__dict__[name] = result: a later entry of the same name replaces
\* the earlier one.
Put(fields, name, result) ==
    [n \in DOMAIN fields \cup {name} |-> IF n = name THEN result ELSE fields[n]]

\* SCVMMDataHolderList.__init__, lines 464-471: every child element goes
\* through parse_data with its own text, whether it has children or not.
SCVMMDataHolderList(data) ==
    LET props == data.children
        items == [i \in 1..Len(props) |-> parse_data(props[i].type, props[i].text)]
        bad == {i \in 1..Len(props) : items[i].kind = "error"}
    IN IF bad # {} THEN items[CHOOSE i \in bad : \A j \in bad : i <= j]
       ELSE ListVal(items)

RECURSIVE DictFrom(_, _, _)
RECURSIVE SCVMMDataHolderDict(_)

\* The loop of SCVMMDataHolderDict.__init__, lines 446-459, from the i-th
\* child element on.  prop.attrib["Name"] raises KeyError when the element
\* has no Name.
DictFrom(props, i, fields) ==
    IF i > Len(props) THEN DictVal(fields)
    ELSE LET prop == props[i]
             children == prop.children
             result ==
                 IF children # <<>>
                 THEN IF \E j \in 1..Len(children) : children[j].name # ""
                      THEN SCVMMDataHolderDict(prop)
                      ELSE SCVMMDataHolderList(prop)
                 ELSE parse_data(prop.type, prop.text)
         IN IF prop.name = "" THEN Raise(KeyError)
            ELSE IF result.kind = "error" THEN result
            ELSE DictFrom(props, i + 1, Put(fields, prop.name, result))

\* SCVMMDataHolderDict that turns away an element with children whose Type
\* is a scalar one.
SCVMMDataHolderDict_strict(data) ==
    IF \E i \in 1..Len(data.children) :
          /\ data.children[i].children # <<>>
          /\ data.children[i].type \in {"System.Boolean", "System.Int32",
                                        "System.String"}
    THEN Raise("MalformedTreeError")
    ELSE DictFrom(data.children, 1, <<>>)

\* SCVMMSystem.SCVMMDataHolderDict, lines 445-459
SCVMMDataHolderDict(data) == DictFrom(data.children, 1, <<>>)

\* The texts: a word with up to MaxPad blanks on either side, never empty
\* (an element without text has no text at all).
Pads == {[i \in 1..n |-> " "] : n \in 0..MaxPad}
Words ==
    {<<"t", "r", "u", "e">>, <<"T", "R", "U", "E">>, <<"T", "r", "u", "e">>,
     <<"f", "a", "l", "s", "e">>, <<"t", "r", " ", "u", "e">>,
     <<"n", "o", "n", "e">>, <<"N", "o", "n", "e">>, <<"n", "o", "n", "e", "x">>,
     <<"x">>, <<"1", "2">>, <<"-", "3">>, <<"1", "x">>, <<>>}
Texts == {Chars(pre \o w \o post) : pre \in Pads, w \in Words, post \in Pads}
             \ {Chars(<<>>)}

ScalarTags == {"System.Boolean", "System.Int32", "System.String"}
ContainerTags == {"System.Object[]"}
Tags == ScalarTags \cup ContainerTags \cup {"System.IntPtr", "System.Guid"}

SeqUpTo(S, n) == UNION {[1..k -> S] : k \in 1..n}

\* Elements without children.
Leaves == {Node("p", t, text, <<>>) : t \in Tags, text \in Texts \cup {NoText}}

\* Elements two levels down, and the elements that hold them.
Kids0 == {Node("n", "System.Boolean", Chars(<<"t", "r", "u", "e">>), <<>>),
          Node("", "System.String", Chars(<<"x">>), <<>>)}
Mids == {Node(ntt[1], ntt[2], ntt[3], kids) :
            ntt \in {<<"m", "System.Object[]", NoText>>,
                     <<"", "System.Object[]", Chars(<<"\n">>)>>,
                     <<"", "System.Int32", Chars(<<"\n">>)>>},
            kids \in SeqUpTo(Kids0, MaxKids)}
LeafKids == {Node(n, tt[1], tt[2], <<>>) :
                n \in {"", "k"},
                tt \in {<<"System.Boolean", Chars(<<"t", "r", "u", "e">>)>>,
                        <<"System.Int32", Chars(<<"1", "x">>)>>,
                        <<"System.Object[]", NoText>>}}
Holders == {Node("p", t, NoText, kids) :
               t \in {"System.Object[]", "System.String"},
               kids \in SeqUpTo(LeafKids \cup Mids, MaxKids)}

\* The Object element of a reply, with one Property.
Roots == {Node("", "Object", NoText, <<prop>>) : prop \in Leaves \cup Holders}

\* The drives a VM starts with, and the iterations the loop is followed for.
MaxDrives == 3
MaxIter == 4

\* The Object element the manager sends for a VM with n DVD drives: the
\* VirtualDVDDrives property has one child per drive, and neither children
\* nor text when there is none.
VmReply(n) ==
    Node("", "Object", NoText,
         <<Node("VirtualDVDDrives", "System.Object[]", NoText,
                [i \in 1..n |-> Node("", "System.String", Chars(<<"x">>), <<>>)])>>)

\* SCVMMSystem.data, lines 425-430, on the reply for a VM with n drives
data(n) == SCVMMDataHolderDict(VmReply(n))

\* The loop test that gives up after the first removal.
loop_test_once(d) ==
    data(d.drives).fields["VirtualDVDDrives"] # Null
        /\ d.number_dvds_disconnected < 1

\* The loop test of disconnect_dvd_drives, line 419
loop_test(d) == data(d.drives).fields["VirtualDVDDrives"] # Null

\* What the manager prints for a VM's IPv4Addresses: one address in braces,
\* another one, two of them, empty braces, nothing.
IpReports ==
    {<<"{", "1", ".", "2", ".", "3", ".", "4", "}">>,
     <<"{", "5", ".", "6", ".", "7", ".", "8", "}">>,
     <<"{", "1", ".", "2", ".", "3", ".", "4", ",", " ",
       "5", ".", "6", ".", "7", ".", "8", "}">>,
     <<"{", "}">>,
     <<>>}

\* data.translate(None, '{}'), line 394: the braces are deleted.
NotBrace(c) == c \notin {"{", "}"}
translate(text) == SelectSeq(text, NotBrace)

\* The ends of the runs of digits ([0-9]+) that start at position i of text.
DigitRunEnds(text, i) ==
    {j \in i..Len(text) : \A x \in i..j : IsDigit(text[x])}

\* One more group (?:.[0-9]+) after a match ending in ends; the unescaped
\* dot takes any character but a line break.
Group(text, ends) ==
    UNION {DigitRunEnds(text, j + 2) : j \in {e \in ends : e + 1 <= Len(text)
                                                     /\ text[e + 1] # "\n"}}

\* re.findall(r'[0-9]+(?:.[0-9]+){3}', text) finds something, line 406
findall(text) ==
    LET first == UNION {DigitRunEnds(text, i) : i \in 1..Len(text)}
    IN Group(text, Group(text, Group(text, first))) # {}

----------------------------------------------------------------------------
(* The state machine *)

NoCall ==
    [op |-> "init", name |-> None, arg |-> None, flag |-> FALSE, pre |-> None,
     exists |-> FALSE, k |-> 0, failAt |-> 0, outcome |-> Ok,
     ret |-> None, retSystem |-> None, steady |-> FALSE, failed |-> FALSE,
     result |-> Success, raised |-> Success]

\* The deserializer, the DVD loop and the address reads at rest.
NoNode == Node("", "", NoText, <<>>)
NoValue == Val("none")
NoDvd == [pc |-> "idle", drives |-> 0, start |-> 0, reads |-> 0, removed |-> 0,
          number_dvds_disconnected |-> 0, ret |-> 0]
NoIp == [pc |-> "idle", vm_name |-> None, report |-> <<>>, cmds |-> <<>>,
         reads |-> <<>>, ret |-> <<>>, isNone |-> FALSE]
Rest == node = NoNode /\ value = NoValue /\ dvd = NoDvd /\ ip = NoIp

\* The handle's operations: a handle on either name, the manager reporting
\* any status for every VM, and no templates.
InitVm ==
    /\ vms \in [Names -> Statuses \cup {Absent}]
    /\ templates = {}
    /\ library = {}
    /\ refreshPending = FALSE
    /\ hname \in Names
    /\ hsystem \in Systems
    /\ log = <<>>
    /\ last = NoCall
    /\ Rest

\* The system's operations: any set of templates, listed by the library, and
\* VMs that are absent, powered off or running.
InitSystem ==
    /\ vms \in [Names -> {Absent, "PowerOff", "Running"}]
    /\ templates \in SUBSET Names
    /\ library = templates
    /\ refreshPending = FALSE
    /\ hname = "a"
    /\ hsystem = "scvmm1"
    /\ log = <<>>
    /\ last = NoCall
    /\ Rest

\* One call of handler `op`, whose course is c, on target `name`: its
\* commands run against the manager, the first failing one ending the call
\* with PowerShellScriptError.  k is recorded when the call came to poll.
\* bads is what the transport may report of the failing command.
CallFrom(bads, op, name, arg, flag, k, c) ==
    \E failAt \in 0..Len(c.plan), bad \in bads :
        LET r == run_script(c.plan, Manager, failAt, bad)
            outcome == IF r.failed THEN PowerShellScriptError ELSE c.outcome
            isState == op = "vm_state" /\ outcome = Ok
        IN /\ vms' = r.m.vms
           /\ templates' = r.m.templates
           /\ library' = r.m.library
           /\ refreshPending' = r.m.refreshPending
           /\ hname' = IF c.nameAt > 0 /\ r.done >= c.nameAt
                       THEN c.newName ELSE hname
           /\ log' = r.log
           /\ UNCHANGED aux
           /\ last' = [op |-> op, name |-> name, arg |-> arg, flag |-> flag,
                       pre |-> vms[name], exists |-> name \in library,
                       k |-> IF \E i \in 1..Len(r.log) :
                                    r.log[i].arg \in {"Starting", STATE_RUNNING}
                             THEN k ELSE 0,
                       failAt |-> IF r.failed THEN r.done + 1 ELSE 0,
                       outcome |-> outcome,
                       ret |-> IF outcome = Ok THEN c.ret ELSE None,
                       retSystem |-> IF outcome = Ok THEN c.retSystem ELSE None,
                       steady |-> isState /\ isSteady(vms[name]),
                       failed |-> isState /\ isFailed(vms[name]),
                       result |-> r.result, raised |-> r.raised]

CallWith(op, name, arg, flag, k, c) == CallFrom({Denied}, op, name, arg, flag, k, c)

Call(op, name, arg, k, c) == CallWith(op, name, arg, FALSE, k, c)

Start == Call("start", hname, "", 0, start(hname))
Stop == \E graceful \in BOOLEAN :
    Call("stop", hname, Bool(graceful), 0, stop(hname, graceful))
Restart == Call("restart", hname, "", 0, restart(hname))
Suspend == Call("suspend", hname, "", 0, suspend(hname))
Delete == Call("delete", hname, "", 0, delete(hname))
Rename == \E name \in Names : Call("rename", hname, name, 0, rename(hname, name))
Clone == \E vm_name \in Names, start_after \in BOOLEAN :
    CallWith("clone", hname, vm_name, start_after, 0,
             clone(hname, hsystem, vm_name, start_after))

VmStateOf == \E n \in Names : Call("vm_state", n, "", 0, vm_state(Manager, n))
DoesTemplateExist == \E t \in Names :
    Call("does_template_exist", t, "", 0, does_template_exist(Manager, t))
DeployTemplate == \E t \in Names, n \in Names, k \in 0..MaxPolls :
    Call("deploy_template", t, n, k, deploy_template(Manager, t, n, k))
DeleteTemplate == \E t \in Names :
    Call("delete_template", t, "", 0, delete_template(Manager, t))
MarkAsTemplate == \E n \in Names :
    Call("mark_as_template", n, "", 0, mark_as_template(n))

\* The manager runs the queued library refresh: the library view catches up
\* with the templates that exist.
LibraryRefreshJob ==
    /\ refreshPending
    /\ library' = templates
    /\ refreshPending' = FALSE
    /\ UNCHANGED <<vms, templates, hname, log, last>>
    /\ UNCHANGED aux

\* The manager finishes starting a VM.
VmStarted == \E n \in Names :
    /\ vms[n] = "Starting"
    /\ vms' = [vms EXCEPT ![n] = "Running"]
    /\ UNCHANGED <<templates, library, refreshPending, hname, log, last>>
    /\ UNCHANGED aux

NextVm ==
    \/ Start
    \/ Stop
    \/ Restart
    \/ Suspend
    \/ Delete
    \/ Rename
    \/ Clone
    \/ VmStateOf
    \/ VmStarted

NextSystem ==
    \/ DoesTemplateExist
    \/ DeployTemplate
    \/ DeleteTemplate
    \/ MarkAsTemplate
    \/ LibraryRefreshJob
    \/ VmStarted

SpecVm == InitVm /\ [][NextVm]_vars

SpecSystem == InitSystem /\ [][NextSystem]_vars

\* The template operations over a transport that reports any of Failures.
FailingDoesTemplateExist == \E t \in Names :
    CallFrom(Failures, "does_template_exist", t, "", FALSE, 0,
             does_template_exist(Manager, t))
FailingDeleteTemplate == \E t \in Names :
    CallFrom(Failures, "delete_template", t, "", FALSE, 0,
             delete_template(Manager, t))
FailingMarkAsTemplate == \E n \in Names :
    CallFrom(Failures, "mark_as_template", n, "", FALSE, 0, mark_as_template(n))

NextScript ==
    \/ FailingDoesTemplateExist
    \/ FailingDeleteTemplate
    \/ FailingMarkAsTemplate
    \/ LibraryRefreshJob

SpecScript == InitSystem /\ [][NextScript]_vars

WithVm == \E t \in Names, n \in Names, k \in 0..MaxPolls, body_raises \in BOOLEAN :
    CallWith("with_vm", t, n, body_raises, k, with_vm(Manager, t, n, k, body_raises))

NextWithVm ==
    \/ WithVm
    \/ VmStarted

SpecWithVm == InitSystem /\ [][NextWithVm]_vars

\* No handle or system operation is under way.
Quiet ==
    /\ vms = [n \in Names |-> Absent]
    /\ templates = {}
    /\ library = {}
    /\ refreshPending = FALSE
    /\ hname = "a"
    /\ hsystem = "scvmm1"
    /\ log = <<>>
    /\ last = NoCall

sys == <<vms, templates, library, refreshPending, hname, hsystem, log, last>>

\* get_ip_address about to be called, the manager reporting any address text.
InitIp ==
    /\ Quiet
    /\ node = NoNode
    /\ value = NoValue
    /\ dvd = NoDvd
    /\ \E n \in Names, r \in IpReports :
          ip = [NoIp EXCEPT !.pc = "refresh", !.vm_name = n, !.report = r]

\* Line 405: update_scvmm_virtualmachine; the command may fail.
IpRefresh ==
    /\ ip.pc = "refresh"
    /\ \E ok \in BOOLEAN :
          ip' = [ip EXCEPT !.cmds = @ \o update_scvmm_virtualmachine(ip.vm_name).plan,
                           !.pc = IF ok THEN "test" ELSE "raised"]
    /\ UNCHANGED <<sys, node, value, dvd>>

\* SCVMMSystem.current_ip_address, lines 389-394: the one command it issues
current_ip_address(vm_name) == Cmd("Get-SCVirtualMachine", vm_name, "IPv4Addresses")

\* One call of current_ip_address has been made; ok: its command succeeded
\* and the manager's report has been read.
AfterRead(ok) ==
    [ip EXCEPT !.cmds = Append(@, current_ip_address(ip.vm_name)),
               !.reads = IF ok THEN Append(@, ip.report) ELSE @]

\* Line 406: current_ip_address is called and its result searched.
IpTest ==
    /\ ip.pc = "test"
    /\ \E ok \in BOOLEAN :
          ip' = IF ~ok THEN [AfterRead(ok) EXCEPT !.pc = "raised"]
                ELSE IF ~findall(translate(ip.report))
                THEN [AfterRead(ok) EXCEPT !.pc = "done", !.isNone = TRUE]
                ELSE [AfterRead(ok) EXCEPT !.pc = "return"]
    /\ UNCHANGED <<sys, node, value, dvd>>

\* Line 408: current_ip_address is called again and its result returned.
IpReturn ==
    /\ ip.pc = "return"
    /\ \E ok \in BOOLEAN :
          ip' = IF ~ok THEN [AfterRead(ok) EXCEPT !.pc = "raised"]
                ELSE [AfterRead(ok) EXCEPT !.pc = "done",
                                           !.ret = translate(ip.report)]
    /\ UNCHANGED <<sys, node, value, dvd>>

\* The manager comes to report another address text for the VM.
AddressChanges ==
    /\ ip.pc \in {"refresh", "test", "return"}
    /\ \E r \in IpReports \ {ip.report} : ip' = [ip EXCEPT !.report = r]
    /\ UNCHANGED <<sys, node, value, dvd>>

NextIp ==
    \/ IpRefresh
    \/ IpTest
    \/ IpReturn
    \/ AddressChanges

SpecIp == InitIp /\ [][NextIp]_vars

\* The deserializer over the Object element of any reply.
InitData ==
    /\ Quiet
    /\ node \in Roots
    /\ value = NoValue
    /\ dvd = NoDvd
    /\ ip = NoIp

\* data(), line 430: the holder of the reply's Object element is built.
Data ==
    /\ value = NoValue
    /\ value' = SCVMMDataHolderDict(node)
    /\ UNCHANGED <<sys, node, dvd, ip>>

NextData == Data

\* disconnect_dvd_drives on a VM with any number of drives, line 414 done.
InitDvd ==
    /\ Quiet
    /\ node = NoNode
    /\ value = NoValue
    /\ ip = NoIp
    /\ \E n \in 0..MaxDrives :
          dvd = [NoDvd EXCEPT !.pc = "test", !.drives = n, !.start = n]

\* Line 419: the details are read and tested; the read may fail.
DvdTest ==
    /\ dvd.pc = "test"
    /\ \E ok \in BOOLEAN :
          dvd' = IF ~ok THEN [dvd EXCEPT !.pc = "raised", !.reads = @ + 1]
                 ELSE IF loop_test(dvd)
                      THEN [dvd EXCEPT !.pc = "remove", !.reads = @ + 1]
                      ELSE [dvd EXCEPT !.pc = "done", !.reads = @ + 1,
                                       !.ret = dvd.number_dvds_disconnected]
    /\ UNCHANGED <<sys, node, value, ip>>

\* Lines 420-421: the removal script runs, and may fail; when it succeeds
\* the manager has detached the first drive, or has not.
DvdRemove ==
    /\ dvd.pc = "remove"
    /\ dvd.number_dvds_disconnected < MaxIter
    /\ \E ok \in BOOLEAN, detached \in 0..1 :
          dvd' = IF ~ok THEN [dvd EXCEPT !.pc = "raised", !.removed = @ + 1]
                 ELSE [dvd EXCEPT !.pc = "test", !.removed = @ + 1,
                                  !.drives = @ - detached,
                                  !.number_dvds_disconnected = @ + 1]
    /\ UNCHANGED <<sys, node, value, ip>>

NextDvd ==
    \/ DvdTest
    \/ DvdRemove

SpecDvd == InitDvd /\ [][NextDvd]_vars

SpecData == InitData /\ [][NextData]_vars

----------------------------------------------------------------------------
(* Properties *)

CmdsOf(lg) == [i \in 1..Len(lg) |-> lg[i].cmd]

IsPrefix(s, t) == Len(s) <= Len(t) /\ s = SubSeq(t, 1, Len(s))

Count(c) == Cardinality({i \in 1..Len(log) : log[i].cmd = c})

\* C1 (as claimed): delete and rename issue Remove / Set -Name only while the
\* VM's mapped state is STOPPED, and a delete of a VM that starts RUNNING
\* shows a stop action followed by the Remove action in the recorded commands
\* (unless a remote command failed).
C1_StopThenRemove ==
    /\ \A i \in 1..Len(log) :
          log[i].cmd \in {"Remove", "Set"} => mapStatus(log[i].st) = "STOPPED"
    /\ (last.op = "delete" /\ last.pre = STATE_RUNNING
            /\ last.outcome # PowerShellScriptError)
          => \E i, j \in 1..Len(log) :
                i < j /\ log[i].cmd = "Stop" /\ log[j].cmd = "Remove"

\* C5: the status mapping is total: whatever status string the manager
\* reports for a VM, reading and mapping it ends normally (unless the remote
\* command failed) with a member of the closed VmState set, and a string the
\* table does not list gives UNKNOWN.
C5_MapStatusTotal ==
    (last.op = "vm_state" /\ last.pre # Absent /\ last.failAt = 0)
        => /\ last.outcome = Ok
           /\ last.ret \in VmState
           /\ (last.pre \notin {"Running", "PowerOff", "Stopped", "Paused",
                                "Missing", "Creation Failed"}
                  => last.ret = "UNKNOWN")

C5_Witness ==
    last.op = "vm_state" /\ last.pre = "Bogus" /\ last.ret = "UNKNOWN"

\* C6 (as claimed): the table maps both members of the STOPPED set, PowerOff
\* and Stopped, to STOPPED, Running to RUNNING, Paused to PAUSED, and Missing
\* and Creation Failed to ERROR.
C6_TableAsSpecified ==
    (last.op = "vm_state" /\ last.outcome = Ok)
        => /\ (last.pre \in STATES_STOPPED => last.ret = "STOPPED")
           /\ (last.pre = "Running" => last.ret = "RUNNING")
           /\ (last.pre = "Paused" => last.ret = "PAUSED")
           /\ (last.pre \in {"Missing", "Creation Failed"} => last.ret = "ERROR")

\* C7 (as claimed): a status counts as steady iff it maps to RUNNING, PAUSED
\* or STOPPED, and as failed iff it maps to ERROR.
C7_SteadyFailedAgree ==
    (last.op = "vm_state" /\ last.outcome = Ok)
        => /\ (last.steady <=> last.ret \in {"RUNNING", "PAUSED", "STOPPED"})
           /\ (last.failed <=> last.ret = "ERROR")

\* C8 (as claimed): start issues exactly one action: Resume if and only if
\* the VM is PAUSED when start is called, Start otherwise.
C8_ResumeIffPaused ==
    last.op = "start"
        => /\ Len(log) = 1
           /\ log[1].cmd \in {"Resume", "Start"}
           /\ (log[1].cmd = "Resume" <=> mapStatus(last.pre) = "PAUSED")

\* C2: deploy_template for a template whose existence check is false issues
\* the template lookup and nothing else, returns no name, and (the lookup
\* itself having succeeded) fails with the template-does-not-exist error.
C2_MissingTemplateOnlyLookup ==
    (last.op = "deploy_template" /\ ~last.exists)
        => /\ Len(log) = 1
           /\ log[1].cmd = "Get-SCVMTemplate"
           /\ log[1].name = last.name
           /\ last.ret = None
           /\ (last.failAt = 0 => last.outcome = TemplateNotFoundError)

C2_Witness ==
    /\ last.op = "deploy_template"
    /\ ~last.exists
    /\ last.outcome = TemplateNotFoundError
    /\ Len(log) = 1

\* C3: when the deployed VM is not Running at any poll the timeout allows
\* and no command fails, deploy_template fails with the timeout error; and
\* whenever it fails so, create and start were each issued exactly once, the
\* status was polled MaxPolls times without seeing Running, nothing was
\* issued besides the lookup, the guest service enabling and these, the VM
\* refresh was not issued and no name is returned.
C3_TimeoutNoRetry ==
    /\ (last.op = "deploy_template" /\ last.exists /\ last.k = 0
            /\ last.failAt = 0)
          => last.outcome = TimeoutError
    /\ (last.op = "deploy_template" /\ last.outcome = TimeoutError)
          => /\ Count("New-SCVirtualMachine") = 1
             /\ Count("Start") + Count("Resume") = 1
             /\ Count("Get-SCVirtualMachine") = MaxPolls
             /\ \A i \in 1..Len(log) : log[i].arg # STATE_RUNNING
             /\ Count("Read-SCVirtualMachine") = 0
             /\ Len(log) = 4 + MaxPolls
             /\ last.ret = None

C3_Witness ==
    /\ last.op = "deploy_template"
    /\ last.outcome = TimeoutError
    /\ Count("Start") = 1
    /\ vms[last.arg] = "Starting"

\* C4: deploy_template issues, in this order, the template lookup, the VM
\* creation, the guest service enabling, the start, the status polls and the
\* VM refresh; a failure at any step ends the sequence there; the refresh
\* follows a poll that saw Running; the VM's name is returned exactly when
\* all of them, the refresh last, have been issued and succeeded.
DeployOrder ==
    <<"Get-SCVMTemplate", "New-SCVirtualMachine", "Enable-VMIntegrationService",
      "Start", "Read-SCVirtualMachine">>

IsPoll(e) == e.cmd = "Get-SCVirtualMachine"

NotPoll(e) == ~IsPoll(e)

C4_DeployOrder ==
    last.op = "deploy_template"
        => /\ IsPrefix(CmdsOf(SelectSeq(log, NotPoll)), DeployOrder)
           /\ \A i \in 1..Len(log) :
                /\ IsPoll(log[i])
                      => /\ \E j \in 1..(i - 1) : log[j].cmd = "Start"
                         /\ \A j \in 1..(i - 1) : log[j].cmd # "Read-SCVirtualMachine"
                /\ log[i].cmd = "Read-SCVirtualMachine"
                      => /\ i > 1
                         /\ IsPoll(log[i - 1])
                         /\ log[i - 1].arg = STATE_RUNNING
                /\ i > 1 => log[i].name = last.arg
           /\ (last.outcome = Ok
                 => /\ CmdsOf(SelectSeq(log, NotPoll)) = DeployOrder
                    /\ log[Len(log)].cmd = "Read-SCVirtualMachine"
                    /\ last.ret = last.arg)
           /\ (last.outcome # Ok => last.ret = None)
           /\ (last.failAt # 0 => last.outcome = PowerShellScriptError)

C4_Witness ==
    /\ last.op = "deploy_template"
    /\ last.outcome = Ok
    /\ last.ret = last.arg
    /\ Len(log) = 5 + MaxPolls

\* C9 (amended): delete_template issues the lookup alone when the existence
\* check is false; when it is true it issues the forced removal once and
\* then the library refresh once; the refresh being asynchronous, after a
\* normal return the template is gone and the library view no longer lists
\* it once the requested refresh has run.
C9_DeleteTemplate ==
    last.op = "delete_template"
        => /\ (~last.exists => CmdsOf(log) = <<"Get-SCVMTemplate">>)
           /\ (last.exists =>
                 IsPrefix(CmdsOf(log),
                    <<"Get-SCVMTemplate", "Remove-SCVMTemplate", "Read-SCLibraryShare">>))
           /\ (last.exists /\ last.outcome = Ok
                 => /\ Len(log) = 3
                    /\ log[2].arg = "-Force"
                    /\ log[2].name = last.name
                    /\ last.name \notin templates
                    /\ (refreshPending \/ last.name \notin library))

C9_Witness ==
    /\ last.op = "delete_template"
    /\ last.exists
    /\ last.outcome = Ok
    /\ ~refreshPending
    /\ last.name \notin library

\* C9 (as claimed): once delete_template has removed an existing template
\* and returned, a following existence check observes the deletion.
C9_CheckSeesDeletion ==
    (last.op = "delete_template" /\ last.exists /\ last.outcome = Ok)
        => does_template_exist(Manager, last.name).ret = "False"

\* C10 (amended): mark_as_template issues the conversion and, only after it
\* has succeeded, the library refresh; after a normal return the VM no
\* longer exists under its name, the template exists, and the existence
\* check for the name is true once the requested asynchronous refresh has
\* run.
C10_MarkAsTemplate ==
    last.op = "mark_as_template"
        => /\ IsPrefix(CmdsOf(log), <<"New-SCVMTemplate", "Read-SCLibraryShare">>)
           /\ Len(log) >= 1
           /\ (last.outcome = Ok
                 => /\ Len(log) = 2
                    /\ vms[last.name] = Absent
                    /\ last.name \in templates
                    /\ (refreshPending
                          \/ does_template_exist(Manager, last.name).ret = "True"))

C10_Witness ==
    /\ last.op = "mark_as_template"
    /\ last.outcome = Ok
    /\ last.pre # Absent
    /\ ~last.exists
    /\ ~refreshPending
    /\ does_template_exist(Manager, last.name).ret = "True"

\* C10 (as claimed): once mark_as_template has returned, the VM no longer
\* exists under its name and the template existence check for that name is
\* true.
C10_ImmediatelyDiscoverable ==
    (last.op = "mark_as_template" /\ last.outcome = Ok)
        => /\ vms[last.name] = Absent
           /\ does_template_exist(Manager, last.name).ret = "True"

C12_FailureSurfaces ==
    /\ (last.result.status_code # 0) <=> (last.outcome = PowerShellScriptError)
    /\ (last.result.status_code # 0)
          => /\ last.failAt >= 1
             /\ Len(log) = last.failAt
             /\ last.raised = [status_code |-> last.result.status_code,
                               std_err |-> last.result.std_err]
             /\ last.ret = None
             /\ (last.op = "mark_as_template"
                    => IsPrefix(CmdsOf(log),
                                <<"New-SCVMTemplate", "Read-SCLibraryShare">>))

\* Making a template of a VM the manager has, the first command exiting with
\* 255: the library refresh that would follow is not issued.
C12_Witness ==
    /\ last.op = "mark_as_template"
    /\ last.pre # Absent
    /\ last.result = [status_code |-> 255, std_err |-> ""]
    /\ last.raised.status_code = 255
    /\ CmdsOf(log) = <<"New-SCVMTemplate">>

\* C17 (as claimed): clone issues exactly one remote command, for the target
\* name, which asks New-SCVirtualMachine to start the clone if and only if
\* start_vm is set; it returns a handle named as the target on the source
\* handle's system, and the source handle keeps its name.
C17_CloneRequestsStart ==
    last.op = "clone"
        => /\ Len(log) = 1
           /\ log[1].name = last.arg
           /\ log[1].arg = last.name
           /\ (log[1].cmd = CloneStarted) <=> last.flag
           /\ (~last.flag => log[1].cmd = ClonePlain)
           /\ (last.outcome = Ok
                  => last.ret = last.arg /\ last.retSystem = hsystem)
           /\ hname = last.name

\* The Property of the reply and the value the holder has under its name.
TheProp == node.children[1]
TheValue == value.fields["p"]

\* The text is w, in any case, between whitespace.
IsWord(chars, w) ==
    \E i \in 1..Len(chars) :
        /\ i + Len(w) - 1 <= Len(chars)
        /\ lower(SubSeq(chars, i, i + Len(w) - 1)) = w
        /\ \A j \in 1..Len(chars) :
              (j < i \/ j > i + Len(w) - 1) => chars[j] \in Whitespace

IsLeafOf(prop, t) == prop.type = t /\ prop.children = <<>> /\ ~prop.text.nil

\* C13: a boolean-tagged leaf with text deserializes to true if and only if
\* its text, trimmed and lower-cased, is "true" (" TRUE " gives true, "false"
\* gives false); every other text gives false.
C13_BooleanLeaf ==
    (value # NoValue /\ IsLeafOf(TheProp, "System.Boolean"))
        => /\ value.kind = "dict"
           /\ TheValue.kind = "bool"
           /\ TheValue.b <=> IsWord(TheProp.text.chars, <<"t", "r", "u", "e">>)
           /\ (TheProp.text.chars = <<" ", "T", "R", "U", "E", " ">> => TheValue.b)
           /\ (TheProp.text.chars = <<"f", "a", "l", "s", "e">> => ~TheValue.b)

\* " TRUE " has been deserialized, to true.
C13_Witness ==
    /\ IsLeafOf(TheProp, "System.Boolean")
    /\ TheProp.text.chars = <<" ", "T", "R", "U", "E", " ">>
    /\ value.kind = "dict"
    /\ TheValue = BoolVal(TRUE)

\* C14 (as claimed): a string-tagged leaf deserializes to null exactly when
\* its text, trimmed and lower-cased, is "none"; any other text comes back
\* as that same string, not as null.
C14_StringLeaf ==
    (value # NoValue /\ IsLeafOf(TheProp, "System.String"))
        => /\ value.kind = "dict"
           /\ (TheValue = Null) <=> IsWord(TheProp.text.chars, <<"n", "o", "n", "e">>)
           /\ (TheValue # Null => TheValue = StrVal(TheProp.text.chars))

Named(props) == {i \in 1..Len(props) : props[i].name # ""}

\* The tree is well formed: an element has children exactly when its Type is
\* a container one, and no integer-tagged text is other than an integer.
RECURSIVE WellFormed(_)
WellFormed(prop) ==
    /\ (prop.children # <<>>) <=> (prop.type \in ContainerTags)
    /\ (StartsWithSystemInt(prop.type) /\ ~prop.text.nil)
          => int(prop.text.chars).kind = "int"
    /\ \A i \in 1..Len(prop.children) : WellFormed(prop.children[i])

\* C15 (as claimed): in a well-formed tree, an element with a named child
\* deserializes to a record with one entry per child name; an element whose
\* children are all unnamed deserializes to a list with one element per
\* child, in order, a leaf child coerced by its type and a child with
\* children becoming a nested record or list.
C15_RecordsAndLists ==
    (value # NoValue /\ TheProp.children # <<>> /\ WellFormed(TheProp))
        => LET kids == TheProp.children IN
           /\ value.kind = "dict"
           /\ (Named(kids) # {}
                 => /\ TheValue.kind = "dict"
                    /\ DOMAIN TheValue.fields = {kids[i].name : i \in Named(kids)})
           /\ (Named(kids) = {}
                 => /\ TheValue.kind = "list"
                    /\ Len(TheValue.items) = Len(kids)
                    /\ \A i \in 1..Len(kids) :
                          IF kids[i].children = <<>>
                          THEN TheValue.items[i] = parse_data(kids[i].type, kids[i].text)
                          ELSE TheValue.items[i].kind \in {"dict", "list"})

\* The element breaks the structural contract: a scalar Type with children,
\* or a container Type without.
RECURSIVE Malformed(_)
Malformed(prop) ==
    \/ prop.children # <<>> /\ prop.type \in ScalarTags
    \/ prop.children = <<>> /\ prop.type \in ContainerTags
    \/ \E i \in 1..Len(prop.children) : Malformed(prop.children[i])

RECURSIVE BadInt(_)
BadInt(prop) ==
    \/ /\ StartsWithSystemInt(prop.type)
       /\ ~prop.text.nil
       /\ int(prop.text.chars).kind = "error"
    \/ \E i \in 1..Len(prop.children) : BadInt(prop.children[i])

\* Somewhere in the tree an element without Name has a sibling with one.
RECURSIVE Mixed(_)
Mixed(prop) ==
    \/ Named(prop.children) \notin {{}, 1..Len(prop.children)}
    \/ \E i \in 1..Len(prop.children) : Mixed(prop.children[i])

C18_DvdLoop ==
    /\ dvd.pc = "test"
          => dvd.reads = dvd.removed /\ dvd.removed = dvd.number_dvds_disconnected
    /\ dvd.pc = "remove"
          => /\ dvd.reads = dvd.removed + 1
             /\ dvd.removed = dvd.number_dvds_disconnected
             /\ dvd.drives > 0
    /\ dvd.pc = "done"
          => /\ dvd.drives = 0
             /\ dvd.reads = dvd.removed + 1
             /\ dvd.ret = dvd.removed
             /\ dvd.ret >= dvd.start
             /\ (dvd.drives = dvd.start - dvd.removed => dvd.ret = dvd.start)
    /\ (dvd.drives > 0 /\ dvd.pc # "raised") => dvd.pc \in {"test", "remove"}

\* A VM with two drives, one removal that detached nothing: three removals,
\* four reads, 3 returned.
C18_Witness ==
    /\ dvd.pc = "done"
    /\ dvd.start = 2
    /\ dvd.removed = 3
    /\ dvd.reads = 4
    /\ dvd.ret = 3

\* A drive that never detaches keeps the loop going for as long as it is
\* followed.
C18_StillLooping ==
    /\ dvd.pc = "remove"
    /\ dvd.drives = dvd.start
    /\ dvd.number_dvds_disconnected = MaxIter

\* C19 (as claimed): when the deployment inside with_vm has returned the
\* name, a delete for that name is issued on leaving the context, whether
\* the body ended normally or raised, and with no command failing the VM is
\* gone afterwards; when the deployment failed no delete is issued.
C19_DeployedVmDeleted ==
    last.op = "with_vm"
        => LET returned == \E i \in 1..Len(log) :
                              log[i].cmd = "Read-SCVirtualMachine" /\ i # last.failAt
               deletes == {i \in 1..Len(log) :
                              log[i].cmd \in {"Stop", "Remove"} /\ log[i].name = last.arg}
           IN /\ (returned => deletes # {})
              /\ (returned /\ last.failAt = 0 => vms[last.arg] = Absent)
              /\ (~returned => deletes = {})

\* The text holds four runs of digits separated by dots.
RECURSIVE DottedRuns(_, _, _)
DottedRuns(text, ends, n) ==
    IF n = 0 THEN ends
    ELSE DottedRuns(text,
                    UNION {DigitRunEnds(text, j + 2) :
                              j \in {e \in ends : e + 1 <= Len(text)
                                                    /\ text[e + 1] = "."}},
                    n - 1)

HasIPv4(text) ==
    DottedRuns(text, UNION {DigitRunEnds(text, i) : i \in 1..Len(text)}, 3) # {}

\* C20 (as claimed): get_ip_address issues the VM refresh before any address
\* read, and what it returns is None or a text that holds an IPv4-shaped
\* address, whatever the manager reports at each read.
C20_NoneOrAddress ==
    /\ ip.cmds # <<>> => ip.cmds[1] = Cmd("Read-SCVirtualMachine", ip.vm_name, "")
    /\ \A i \in 2..Len(ip.cmds) : ip.cmds[i].cmd = "Get-SCVirtualMachine"
    /\ ip.pc = "done" => ip.isNone \/ HasIPv4(ip.ret)

====
